---- MODULE Spec2Model ----
(***************************************************************************)
(* Model of the mock-data userscript (hero553/mock-api-gm): the rule       *)
(* matcher, the request log, the wrapped fetch and the wrapped             *)
(* XMLHttpRequest open/send, together with the panel handlers that change  *)
(* the configuration.                                                      *)
(*                                                                         *)
(* Strings the code inspects character by character (URLs and url          *)
(* patterns) are sequences of one-character strings.  Time is counted in   *)
(* ticks: every pending timer records how many ticks it has waited.        *)
(***************************************************************************)
EXTENDS Integers, Sequences, FiniteSets, TLC

VARIABLES
    config,        \* let config: ScriptConfig
    storage,       \* value kept under the key 'mock_config' ("null" when absent)
    requestLogs,   \* let requestLogs: RequestLog[]
    nextLogId,     \* the fresh id the next log entry gets (Date.now + random)
    recorded,      \* number of entries recorded since the log was last empty by clear
    nextRuleId,    \* the fresh id generateId() gives the next new rule
    defaultConfig, \* const defaultConfig: the object, which the code can mutate
    alias,         \* what config shares with defaultConfig: "same" object,
                   \* the "rules" array only, or "none"
    fetchCalls,    \* per promise variable of the page: the last wrapped fetch call
    xhr,           \* per XMLHttpRequest object of the page: its fields and notifications
    timers,        \* pending setTimeout callbacks
    changes,       \* panel actions taken so far, counted where a specification bounds them
    importAlert    \* the alert importConfig showed last ("none" before the first)

vars == <<config, storage, requestLogs, nextLogId, recorded, nextRuleId,
          defaultConfig, alias, fetchCalls, xhr, timers, changes, importAlert>>

(***************************************************************************)
(* Bounds of the model                                                     *)
(***************************************************************************)
MaxRules == 2          \* longest rule list
MaxNewRules == 2       \* rules the editor creates in a behaviour
MaxRecords == 2        \* log entries recorded in a behaviour of Spec
LogMaxRecords == 150   \* log entries recorded in a behaviour of SpecLog
MaxSlots == 1          \* promise variables of the page
MaxObjects == 1        \* XMLHttpRequest objects of the page
MaxInFlight == 2       \* pending timers
MaxFlightObjects == 2  \* XMLHttpRequest objects of a page that uses several at once
MaxFlightRecords == 3  \* entries recorded while several requests are in flight
MaxSends == 2          \* send() calls on one XMLHttpRequest object before it is replaced
MaxWait == 2           \* ticks a timer counts
MaxChanges == 2        \* panel actions in a behaviour of Spec
MaxConfigChanges == 5  \* panel actions in a behaviour of SpecConfig

(***************************************************************************)
(* Program constants                                                       *)
(***************************************************************************)
LogCapacity == 100

Slots == 1..MaxSlots
Objects == 1..MaxObjects

None == "undefined"

(***************************************************************************)
(* Character strings                                                       *)
(***************************************************************************)
\* String.prototype.includes
Includes(u, p) ==
    \E i \in 0..(Len(u) - Len(p)) :
        \A k \in 1..Len(p) : u[i + k] = p[k]

\* new RegExp(p) throws a SyntaxError: an unterminated character class
RegExpThrows(p) ==
    \E i \in 1..Len(p) :
        /\ p[i] = "["
        /\ ~ \E j \in (i + 1)..Len(p) : p[j] = "]"

\* The pattern without a leading ^ and a trailing $
PatternBody(p) ==
    LET from == IF Len(p) > 0 /\ p[1] = "^" THEN 2 ELSE 1
        to   == IF Len(p) >= from /\ p[Len(p)] = "$" THEN Len(p) - 1 ELSE Len(p)
    IN  SubSeq(p, from, to)

\* RegExp.prototype.test for patterns of literals, ".", a leading "^" and a trailing "$"
RegExpTest(p, u) ==
    LET body     == PatternBody(p)
        anchorL  == Len(p) > 0 /\ p[1] = "^"
        anchorR  == Len(p) > (IF anchorL THEN 1 ELSE 0) /\ p[Len(p)] = "$"
        starts   == IF anchorL THEN {0} ELSE 0..(Len(u) - Len(body))
    IN  \E i \in starts :
            /\ i + Len(body) <= Len(u)
            /\ anchorR => i + Len(body) = Len(u)
            /\ \A k \in 1..Len(body) : body[k] = "." \/ body[k] = u[i + k]

\* String.prototype.toUpperCase on the method names the model uses
ToUpperCase(m) ==
    CASE m = "get"  -> "GET"
      [] m = "post" -> "POST"
      [] m = "all"  -> "ALL"
      [] OTHER      -> m

(***************************************************************************)
(* Values the model draws from                                             *)
(***************************************************************************)
UrlA  == <<"/", "a">>            \* "/a"
UrlAB == <<"/", "a", "[">>       \* "/a["
UrlB  == <<"/", "b">>            \* "/b"
Urls == {UrlA, UrlAB, UrlB}

PatA     == <<"/", "a">>           \* compiles; found in "/a" and "/a["
PatBad   == <<"[">>                \* does not compile; a substring of "/a[" only
PatExact == <<"^", "/", ".", "$">> \* compiles; "/a" and "/b", not "/a["

JsonGood   == "{\"id\":1}"
JsonSpaced == "{ \"id\": 1 }"
JsonBad    == "{bad json"
TextHello  == "hello"

NoId == 0     \* ruleId of a log entry that has none (undefined)

\* interface MockRule
MockRule(id, enabled, name, urlPattern, method, type, data, statusCode, delay) ==
    [id |-> id, enabled |-> enabled, name |-> name, urlPattern |-> urlPattern,
     method |-> method, responseType |-> type, responseData |-> data,
     statusCode |-> statusCode, delay |-> delay]

NoRule == [id |-> NoId]   \* matchRule's null

NaN == -1        \* parseInt of a text that is no number
JsonNull == -2   \* null where a number was written

\* What the rule editor's form can hold when it is submitted; its two number
\* fields are not required and can be left blank
FormValues ==
    { [name |-> "user", urlPattern |-> PatA, method |-> "GET",
       responseType |-> "json", responseData |-> JsonSpaced,
       statusCode |-> 200, delay |-> 0],
      [name |-> "bracket", urlPattern |-> PatBad, method |-> "ALL",
       responseType |-> "text", responseData |-> TextHello,
       statusCode |-> 503, delay |-> 2],
      [name |-> "broken", urlPattern |-> PatExact, method |-> "POST",
       responseType |-> "json", responseData |-> JsonBad,
       statusCode |-> 404, delay |-> 1],
      [name |-> "blank", urlPattern |-> PatA, method |-> "GET",
       responseType |-> "text", responseData |-> TextHello,
       statusCode |-> NaN, delay |-> NaN] }

FormRule(id, enabled, f) ==
    MockRule(id, enabled, f.name, f.urlPattern, f.method, f.responseType,
             f.responseData, f.statusCode, f.delay)

(***************************************************************************)
(* JSON and Response of the platform                                       *)
(***************************************************************************)
\* JSON.parse(s) throws a SyntaxError
JsonParseThrows(s) == s \notin {JsonGood, JsonSpaced}

\* JSON.stringify(JSON.parse(s)) for a text that parses
JsonReserialize(s) == IF s = JsonSpaced THEN JsonGood ELSE s

\* new Response(body, {status}) throws: a status outside 200..599 is a
\* RangeError, a null-body status with a body is a TypeError
ResponseThrows(status) ==
    \/ status < 200
    \/ status > 599
    \/ status \in {204, 205, 304}

ContentType(rule) ==
    IF rule.responseType = "json" THEN "application/json" ELSE "text/plain"

(***************************************************************************)
(* matchRule                                                               *)
(***************************************************************************)
\* A URL test that gives up on a pattern that does not compile
UrlMatchedNoFallback(rule, url) ==
    IF RegExpThrows(rule.urlPattern)
    THEN FALSE
    ELSE RegExpTest(rule.urlPattern, url)

\* The URL test of one rule: the regular expression, or the substring when
\* the pattern does not compile
UrlMatched(rule, url) ==
    IF RegExpThrows(rule.urlPattern)
    THEN Includes(url, rule.urlPattern)
    ELSE RegExpTest(rule.urlPattern, url)

\* The method test of line 112: the rule is not skipped for its method
MethodCompatible(rule, method) ==
    ~ (rule.method # "ALL" /\ rule.method # ToUpperCase(method))

\* matchLoop that goes on after a match and returns the last rule that passes
RECURSIVE matchLoopLast(_, _, _, _)
matchLoopLast(rules, i, url, method) ==
    IF i > Len(rules) THEN 0
    ELSE LET rule == rules[i]
             later == matchLoopLast(rules, i + 1, url, method)
         IN  IF later # 0 THEN later
             ELSE IF /\ rule.enabled
                     /\ rule.method = "ALL" \/ rule.method = ToUpperCase(method)
                     /\ UrlMatched(rule, url)
                  THEN i
             ELSE 0

\* The for loop of matchRule from position i on: the position of the rule it
\* returns, 0 when it falls out of the loop
RECURSIVE matchLoop(_, _, _, _)
matchLoop(rules, i, url, method) ==
    IF i > Len(rules) THEN 0
    ELSE LET rule == rules[i] IN
         IF ~ rule.enabled THEN matchLoop(rules, i + 1, url, method)
         ELSE IF ~ MethodCompatible(rule, method)
              THEN matchLoop(rules, i + 1, url, method)
         ELSE IF UrlMatched(rule, url) THEN i
         ELSE matchLoop(rules, i + 1, url, method)

\* A matchIndex that finds nothing while logging is off
matchIndexLogged(cfg, url, method) ==
    IF ~ cfg.enabled \/ ~ cfg.logRequests THEN 0
    ELSE matchLoop(cfg.rules, 1, url, method)

\* matchIndex without the test of config.enabled
matchIndexNoSwitch(cfg, url, method) == matchLoop(cfg.rules, 1, url, method)

\* Position of the rule matchRule returns under configuration cfg, 0 for null
matchIndex(cfg, url, method) ==
    IF ~ cfg.enabled THEN 0 ELSE matchLoop(cfg.rules, 1, url, method)

matchRule(cfg, url, method) ==
    LET i == matchIndex(cfg, url, method)
    IN  IF i = 0 THEN NoRule ELSE cfg.rules[i]

(***************************************************************************)
(* addRequestLog                                                           *)
(***************************************************************************)
\* interface RequestLog (the timestamp is the moment the id is taken)
RequestLog(id, url, method, matched, ruleId) ==
    [id |-> id, url |-> url, method |-> method, matched |-> matched,
     ruleId |-> ruleId]

\* unshift without the slice
UnshiftNoSlice(log, entry) == <<entry>> \o log

\* unshift, then a slice that drops the head of a log longer than 100
UnshiftSliceHead(log, entry) ==
    LET longer == <<entry>> \o log
    IN  IF Len(longer) > LogCapacity THEN SubSeq(longer, 2, LogCapacity + 1)
        ELSE longer

\* push in the place of unshift: the new entry goes to the tail
UnshiftAsPush(log, entry) ==
    LET longer == log \o <<entry>>
    IN  IF Len(longer) > LogCapacity THEN SubSeq(longer, 1, LogCapacity)
        ELSE longer

\* unshift, then slice(0, 100) when the log is longer than 100
Unshift(log, entry) ==
    LET longer == <<entry>> \o log
    IN  IF Len(longer) > LogCapacity THEN SubSeq(longer, 1, LogCapacity)
        ELSE longer

\* addRequestLog without the test of config.logRequests
addRequestLogAlways(url, method, matched, ruleId) ==
    [logs  |-> Unshift(requestLogs,
                       RequestLog(nextLogId, url, method, matched, ruleId)),
     next  |-> nextLogId + 1,
     count |-> recorded + 1]

\* The log, the next fresh id and the count of recorded entries after
\* addRequestLog(url, method, matched, ruleId)
addRequestLog(url, method, matched, ruleId) ==
    IF ~ config.logRequests
    THEN [logs |-> requestLogs, next |-> nextLogId, count |-> recorded]
    ELSE [logs  |-> Unshift(requestLogs,
                            RequestLog(nextLogId, url, method, matched, ruleId)),
          next  |-> nextLogId + 1,
          count |-> recorded + 1]

(***************************************************************************)
(* Configuration: defaults, JSON text, load and save                       *)
(***************************************************************************)
\* The literal of const defaultConfig
HardDefaults ==
    [enabled |-> TRUE, rules |-> <<>>, showNotification |-> TRUE,
     logRequests |-> TRUE]

\* JSON.stringify of a number: NaN is written as null
JsonNumber(n) == IF n = NaN THEN JsonNull ELSE n

\* JSON.parse(JSON.stringify(rule)): the rule a reader of the text gets
JsonRule(rule) ==
    [rule EXCEPT !.statusCode = JsonNumber(rule.statusCode),
                 !.delay = JsonNumber(rule.delay)]

\* JSON.parse(JSON.stringify(cfg)): the document a reader of the text gets
JsonDocument(cfg) ==
    [k \in DOMAIN cfg |->
        IF k = "rules"
        THEN [i \in 1..Len(cfg.rules) |-> JsonRule(cfg.rules[i])]
        ELSE cfg[k]]

\* { ...defaults, ...doc }: the keys of doc over the keys of defaults
Spread(defaults, doc) ==
    [k \in DOMAIN defaults \cup DOMAIN doc |->
        IF k \in DOMAIN doc THEN doc[k] ELSE defaults[k]]

\* What config shares with defaultConfig after { ...defaultConfig, ...doc }
SpreadAlias(doc) == IF "rules" \in DOMAIN doc THEN "none" ELSE "rules"

Absent == [kind |-> "absent"]     \* nothing saved: getValue gives null
Corrupt == [kind |-> "corrupt"]   \* a saved text that JSON.parse rejects
Saved(doc) == [kind |-> "json", doc |-> doc]

\* A loadConfig that switches the engine off when it cannot parse the saved text
loadConfigSwitchedOff(saved, defaults) ==
    IF saved.kind = "json"
    THEN [config |-> Spread(defaults, saved.doc), alias |-> SpreadAlias(saved.doc)]
    ELSE IF saved.kind = "corrupt"
    THEN [config |-> [defaults EXCEPT !.enabled = FALSE], alias |-> "none"]
    ELSE [config |-> defaults, alias |-> "same"]

\* loadConfig: the config and what it shares with defaultConfig
loadConfig(saved, defaults) ==
    IF saved.kind = "json"
    THEN [config |-> Spread(defaults, saved.doc), alias |-> SpreadAlias(saved.doc)]
    ELSE [config |-> defaults, alias |-> "same"]

\* saveConfig: the value under 'mock_config' after it ran on cfg
saveConfig(cfg) == Saved(JsonDocument(cfg))

\* Rules as saved texts of earlier sessions, hand-written or not, hold them
UserRule ==
    MockRule(11, TRUE, "user", PatA, "GET", "json", JsonSpaced, 200, 0)
BracketRule ==
    MockRule(12, TRUE, "bracket", PatBad, "ALL", "text", TextHello, 503, 2)
BrokenRule ==
    MockRule(13, TRUE, "broken", PatExact, "POST", "json", JsonBad, 404, 1)
LowerRule ==
    MockRule(14, FALSE, "lower", PatA, "get", "text", TextHello, 100, 0)

\* What the store can hold when the script starts
InitialStorage ==
    { Absent,
      Corrupt,
      Saved([enabled |-> TRUE, rules |-> <<UserRule, BracketRule>>,
             showNotification |-> FALSE, logRequests |-> TRUE]),
      Saved([enabled |-> TRUE, rules |-> <<LowerRule, BrokenRule>>,
             showNotification |-> TRUE, logRequests |-> TRUE]),
      Saved([logRequests |-> FALSE]) }

\* exportConfig: the text of the file it offers (the indentation aside)
exportConfig(cfg) == Saved(JsonDocument(cfg))

\* A rule of a hand-written file that carries the id of another rule
TwinRule == [BracketRule EXCEPT !.id = UserRule.id]

\* Files the user can pick for importConfig, next to a file exportConfig wrote
ImportFiles ==
    { Corrupt,
      Saved([rules |-> <<UserRule>>]),
      Saved([rules |-> <<UserRule, TwinRule>>]),
      Saved([enabled |-> FALSE, logRequests |-> FALSE]),
      Saved([enabled |-> TRUE, rules |-> <<BracketRule>>,
             showNotification |-> FALSE, logRequests |-> TRUE]) }

(***************************************************************************)
(* State after main() ran                                                  *)
(***************************************************************************)
IdleCall == [state |-> "idle"]

\* An XMLHttpRequest object right after new XMLHttpRequest()
NewObject ==
    [mockUrl |-> <<>>, mockMethod |-> "", intercepted |-> FALSE,
     sends |-> 0, origOpen |-> [called |-> FALSE], origSends |-> 0,
     own |-> [installed |-> FALSE],
     served |-> NoRule,   \* the rule of the latest callback run on the object
     events |-> <<>>]   \* what the listeners saw in the latest callback run

InitOf(stores, objects) ==
    /\ storage \in stores
    /\ defaultConfig = HardDefaults
    /\ config = loadConfig(storage, HardDefaults).config
    /\ alias = loadConfig(storage, HardDefaults).alias
    /\ requestLogs = <<>>
    /\ nextLogId = 1
    /\ recorded = 0
    /\ nextRuleId = 1
    /\ fetchCalls = [s \in Slots |-> IdleCall]
    /\ xhr = [o \in objects |-> NewObject]
    /\ timers = <<>>
    /\ changes = 0
    /\ importAlert = "none"

InitWith(stores) == InitOf(stores, Objects)

Init == InitWith(InitialStorage)

clientVars == <<fetchCalls, xhr, timers>>
panelVars == <<config, storage, defaultConfig, alias, nextRuleId, changes,
               importAlert>>
logVars == <<requestLogs, nextLogId, recorded>>

(***************************************************************************)
(* Panel handlers that change the configuration                            *)
(***************************************************************************)
\* config.<key> = value on the config object, then saveConfig()
SetFlag(key, value) ==
    /\ config[key] # value
    /\ config' = [config EXCEPT ![key] = value]
    /\ defaultConfig' = IF alias = "same" THEN config' ELSE defaultConfig
    /\ storage' = saveConfig(config')
    /\ UNCHANGED <<alias, nextRuleId, importAlert, logVars, clientVars>>

\* the change handler of #mock-enabled
SetEnabled(b) == SetFlag("enabled", b)

\* the change handler of #mock-show-notification
SetShowNotification(b) == SetFlag("showNotification", b)

\* the change handler of #mock-log-requests
SetLogRequests(b) == SetFlag("logRequests", b)

\* The rules array changed in place (push, index assignment, a field of one
\* of its rules): every holder of the array sees it
MutateRules(newRules) ==
    /\ config' = [config EXCEPT !.rules = newRules]
    /\ defaultConfig' = IF alias \in {"same", "rules"}
                        THEN [defaultConfig EXCEPT !.rules = newRules]
                        ELSE defaultConfig
    /\ storage' = saveConfig(config')
    /\ UNCHANGED alias

\* Array.prototype.findIndex(r => r.id === id), 0 for -1
RECURSIVE findIndexFrom(_, _, _)
findIndexFrom(rules, i, id) ==
    IF i > Len(rules) THEN 0
    ELSE IF rules[i].id = id THEN i
    ELSE findIndexFrom(rules, i + 1, id)

findIndex(rules, id) == findIndexFrom(rules, 1, id)

\* Array.prototype.filter(r => r.id !== id)
RECURSIVE filterOut(_, _)
filterOut(rules, id) ==
    IF rules = <<>> THEN <<>>
    ELSE IF Head(rules).id = id THEN filterOut(Tail(rules), id)
    ELSE <<Head(rules)>> \o filterOut(Tail(rules), id)

\* data-action="toggle" on the rule with this id
ToggleRule(id) ==
    LET i == findIndex(config.rules, id) IN
    /\ i # 0
    /\ MutateRules([config.rules EXCEPT ![i].enabled = ~ config.rules[i].enabled])
    /\ UNCHANGED <<nextRuleId, importAlert, logVars, clientVars>>

\* data-action="delete" on the rule with this id, confirmed
DeleteRule(id) ==
    /\ \E i \in 1..Len(config.rules) : config.rules[i].id = id
    /\ config' = [config EXCEPT !.rules = filterOut(config.rules, id)]
    /\ defaultConfig' = IF alias = "same" THEN config' ELSE defaultConfig
    /\ alias' = IF alias = "rules" THEN "none" ELSE alias
    /\ storage' = saveConfig(config')
    /\ UNCHANGED <<nextRuleId, importAlert, logVars, clientVars>>

\* showRuleEditor() and the submit of its form: a new rule
SubmitNewRule(f) ==
    /\ Len(config.rules) < MaxRules
    /\ nextRuleId <= MaxNewRules
    /\ MutateRules(Append(config.rules, FormRule(nextRuleId, TRUE, f)))
    /\ nextRuleId' = nextRuleId + 1
    /\ UNCHANGED <<importAlert, logVars, clientVars>>

\* showRuleEditor(rule) and the submit of its form: the rule with this id
SubmitEditRule(id, f) ==
    LET i == findIndex(config.rules, id) IN
    /\ i # 0
    /\ FormRule(id, config.rules[i].enabled, f) # config.rules[i]
    /\ MutateRules([config.rules EXCEPT
                        ![i] = FormRule(id, config.rules[i].enabled, f)])
    /\ UNCHANGED <<nextRuleId, importAlert, logVars, clientVars>>

\* the click handler of #mock-clear-logs
ClearLogs ==
    /\ requestLogs # <<>>
    /\ requestLogs' = <<>>
    /\ recorded' = 0
    /\ UNCHANGED <<config, storage, defaultConfig, alias, nextLogId, nextRuleId,
                   importAlert, clientVars>>

RuleIds == {config.rules[i].id : i \in 1..Len(config.rules)}

\* An importConfig that answers a file it cannot parse with the defaults
importConfigFallsBack(file, confirmed) ==
    IF file.kind # "json"
    THEN /\ config' = defaultConfig
         /\ alias' = "same"
         /\ storage' = saveConfig(config')
         /\ importAlert' = "failed"
         /\ UNCHANGED <<defaultConfig, nextRuleId, logVars, clientVars>>
    ELSE IF confirmed
    THEN /\ config' = Spread(defaultConfig, file.doc)
         /\ alias' = SpreadAlias(file.doc)
         /\ storage' = saveConfig(config')
         /\ importAlert' = "success"
         /\ UNCHANGED <<defaultConfig, nextRuleId, logVars, clientVars>>
    ELSE UNCHANGED <<config, storage, defaultConfig, alias, nextRuleId,
                     importAlert, logVars, clientVars>>

\* importConfig once the chosen file is read (reader.onload): JSON.parse
\* throws and the handler alerts, or the user answers the confirm and, on yes,
\* the document is merged over defaultConfig and saved
importConfig(file, confirmed) ==
    IF file.kind # "json"
    THEN /\ importAlert' = "failed"
         /\ UNCHANGED <<config, storage, defaultConfig, alias, nextRuleId,
                         logVars, clientVars>>
    ELSE IF confirmed
    THEN /\ config' = Spread(defaultConfig, file.doc)
         /\ alias' = SpreadAlias(file.doc)
         /\ storage' = saveConfig(config')
         /\ importAlert' = "success"
         /\ UNCHANGED <<defaultConfig, nextRuleId, logVars, clientVars>>
    ELSE UNCHANGED <<config, storage, defaultConfig, alias, nextRuleId,
                     importAlert, logVars, clientVars>>


(***************************************************************************)
(* Timers                                                                  *)
(***************************************************************************)
\* A pending setTimeout callback: whose it is, the rule its closure holds,
\* the ticks it has waited and, for an XMLHttpRequest, which send() set it
Timer(kind, target, rule, exch) ==
    [kind |-> kind, target |-> target, rule |-> rule, waited |-> 0,
     exch |-> exch]

\* A timer that runs its callback without waiting
TimerDueAtOnce(t) == t.waited >= 0

\* setTimeout(callback, delay) runs the callback once delay has elapsed;
\* a delay that is no positive number is no wait at all
TimerDue(t) == t.waited >= t.rule.delay

RemoveAt(seq, i) == SubSeq(seq, 1, i - 1) \o SubSeq(seq, i + 1, Len(seq))

\* One unit of time passes for every pending timer
Tick ==
    /\ \E i \in 1..Len(timers) : timers[i].waited < MaxWait
    /\ timers' = [i \in 1..Len(timers) |->
                    IF timers[i].waited < MaxWait
                    THEN [timers[i] EXCEPT !.waited = @ + 1]
                    ELSE timers[i]]
    /\ UNCHANGED <<panelVars, logVars,
                   fetchCalls, xhr>>

(***************************************************************************)
(* window.fetch (wrapper)                                                  *)
(***************************************************************************)
\* Arguments of a fetch call: the URL of the input (a string, a URL or a
\* Request), the method of init when init has one, and the method of the
\* input when the input is a Request
FetchInputs ==
    { [url |-> UrlAB, initMethod |-> None, requestMethod |-> None],
      [url |-> UrlA,  initMethod |-> "post", requestMethod |-> None],
      [url |-> UrlB,  initMethod |-> None, requestMethod |-> "POST"] }

\* const method = init?.method || 'GET'
FetchMethod(args) == IF args.initMethod # None THEN args.initMethod ELSE "GET"

\* Lines 184-200: how the promise of a matched call settles, `after` ticks
\* after the call
Synthesize(rule, after) ==
    IF rule.responseType = "json" /\ JsonParseThrows(rule.responseData)
    THEN [kind |-> "rejected", source |-> "mock", error |-> "SyntaxError",
          after |-> after]
    ELSE IF ResponseThrows(rule.statusCode)
    THEN [kind |-> "rejected", source |-> "mock", error |-> "RangeError",
          after |-> after]
    ELSE [kind |-> "resolved", source |-> "mock",
          status |-> rule.statusCode, statusText |-> "OK",
          contentType |-> ContentType(rule),
          body |-> IF rule.responseType = "json"
                   THEN JsonReserialize(rule.responseData)
                   ELSE rule.responseData,
          after |-> after]

\* What the real fetch can do with a request
NetworkOutcomes ==
    { [kind |-> "resolved", source |-> "network"],
      [kind |-> "rejected", source |-> "network"] }

\* A wrapper that catches the rejection of the real fetch and answers itself
AsyncReturnCaught(outcome) ==
    IF outcome.kind = "rejected"
    THEN [kind |-> "resolved", source |-> "mock"]
    ELSE outcome

\* return originalFetch.apply(...) in the async wrapper: the wrapper's
\* promise settles as the promise it returns
AsyncReturn(outcome) == outcome

NotCalled == [called |-> FALSE]

\* A call of the wrapped fetch whose result the page keeps in variable s
FetchCall(s, args, maxRecords) ==
    LET url    == args.url
        method == FetchMethod(args)
        rule   == matchRule(config, url, method)
        log    == addRequestLog(url, method, rule # NoRule,
                                IF rule # NoRule THEN rule.id ELSE NoId)
    IN
    \* bounds: the page reuses variable s once its call is past its delay, and
    \* at most maxRecords entries are recorded
    /\ fetchCalls[s].state # "waiting"
    /\ config.logRequests => nextLogId <= maxRecords
    /\ requestLogs' = log.logs
    /\ nextLogId' = log.next
    /\ recorded' = log.count
    /\ IF rule # NoRule
       THEN IF rule.delay > 0
            THEN /\ Len(timers) < MaxInFlight
                 /\ timers' = Append(timers, Timer("fetch", s, rule, 0))
                 /\ fetchCalls' = [fetchCalls EXCEPT ![s] =
                        [state |-> "waiting", args |-> args, rule |-> rule,
                         orig |-> NotCalled]]
            ELSE /\ timers' = timers
                 /\ fetchCalls' = [fetchCalls EXCEPT ![s] =
                        [state |-> "settled", args |-> args, rule |-> rule,
                         orig |-> NotCalled, outcome |-> Synthesize(rule, 0)]]
       ELSE /\ timers' = timers
            /\ fetchCalls' = [fetchCalls EXCEPT ![s] =
                   [state |-> "delegated", args |-> args, rule |-> NoRule,
                    orig |-> [called |-> TRUE, times |-> 1, args |-> args]]]
    /\ UNCHANGED <<panelVars, xhr>>

\* The promise of the real fetch settles
OrigFetchSettles(s, outcome) ==
    /\ fetchCalls[s].state = "delegated"
    /\ fetchCalls' = [fetchCalls EXCEPT ![s] =
           [state |-> "settled", args |-> fetchCalls[s].args, rule |-> NoRule,
            orig |-> [called |-> TRUE, times |-> fetchCalls[s].orig.times,
                      args |-> fetchCalls[s].orig.args, outcome |-> outcome],
            outcome |-> AsyncReturn(outcome)]]
    /\ UNCHANGED <<panelVars, logVars,
                   xhr, timers>>

\* A wrapper that, past its await, takes the rule of its id as the config
\* holds it by then
FetchTimerFiresCurrent(i) ==
    LET t == timers[i]
        k == findIndex(config.rules, t.rule.id)
        rule == IF k # 0 THEN config.rules[k] ELSE t.rule
    IN
    /\ t.kind = "fetch"
    /\ TimerDue(t)
    /\ timers' = RemoveAt(timers, i)
    /\ fetchCalls' = [fetchCalls EXCEPT ![t.target] =
           [state |-> "settled", args |-> fetchCalls[t.target].args,
            rule |-> t.rule, orig |-> fetchCalls[t.target].orig,
            outcome |-> Synthesize(rule, t.waited)]]
    /\ UNCHANGED <<panelVars, logVars,
                   xhr>>

\* The timer of line 181 fires and the wrapper runs on from its await
FetchTimerFires(i) ==
    LET t == timers[i] IN
    /\ t.kind = "fetch"
    /\ TimerDue(t)
    /\ timers' = RemoveAt(timers, i)
    /\ fetchCalls' = [fetchCalls EXCEPT ![t.target] =
           [state |-> "settled", args |-> fetchCalls[t.target].args,
            rule |-> t.rule, orig |-> fetchCalls[t.target].orig,
            outcome |-> Synthesize(t.rule, t.waited)]]
    /\ UNCHANGED <<panelVars, logVars,
                   xhr>>

(***************************************************************************)
(* XMLHttpRequest.prototype.open / send (wrappers)                         *)
(***************************************************************************)
XhrInputs ==
    { [method |-> "GET",  url |-> UrlAB],
      [method |-> "post", url |-> UrlA],
      [method |-> "GET",  url |-> <<>>] }   \* open('GET', ''): the page's own URL

\* status of an object on which no status was installed
NativeStatus == 0

\* An open that keeps the method and the URL in one place for all objects
XhrOpenShared(o, method, url) ==
    /\ xhr[o].mockUrl # url \/ xhr[o].mockMethod # method
    /\ xhr' = [p \in DOMAIN xhr |->
                 IF p = o
                 THEN [xhr[p] EXCEPT !.mockUrl = url, !.mockMethod = method,
                                     !.origOpen = [called |-> TRUE,
                                                   method |-> method,
                                                   url |-> url]]
                 ELSE [xhr[p] EXCEPT !.mockUrl = url, !.mockMethod = method]]
    /\ UNCHANGED <<panelVars, logVars,
                   fetchCalls, timers>>

\* The wrapped open
XhrOpen(o, method, url) ==
    /\ xhr[o].mockUrl # url \/ xhr[o].mockMethod # method
    /\ xhr' = [xhr EXCEPT ![o].mockUrl = url,
                          ![o].mockMethod = method,
                          ![o].origOpen = [called |-> TRUE, method |-> method,
                                           url |-> url]]
    /\ UNCHANGED <<panelVars, logVars,
                   fetchCalls, timers>>

\* A wrapped send without the return of line 309: a matched send goes on to
\* the original send
XhrSendNoReturn(o, maxRecords) ==
    LET url      == xhr[o].mockUrl
        method   == xhr[o].mockMethod
        captured == url # <<>> /\ method # ""
        rule     == IF captured THEN matchRule(config, url, method) ELSE NoRule
        log      == addRequestLog(url, method, rule # NoRule,
                                  IF rule # NoRule THEN rule.id ELSE NoId)
    IN
    \* bounds: MaxSends calls on one object, maxRecords entries recorded
    /\ xhr[o].sends < MaxSends
    /\ (captured /\ config.logRequests) => nextLogId <= maxRecords
    /\ IF captured
       THEN /\ requestLogs' = log.logs
            /\ nextLogId' = log.next
            /\ recorded' = log.count
       ELSE UNCHANGED logVars
    /\ IF rule # NoRule
       THEN /\ Len(timers) < MaxInFlight
            /\ timers' = Append(timers, Timer("xhr", o, rule, xhr[o].sends + 1))
            /\ xhr' = [xhr EXCEPT ![o].intercepted = TRUE,
                                  ![o].origSends = @ + 1,
                                  ![o].sends = @ + 1]
       ELSE /\ timers' = timers
            /\ xhr' = [xhr EXCEPT ![o].origSends = @ + 1,
                                  ![o].sends = @ + 1]
    /\ UNCHANGED <<panelVars, fetchCalls>>

\* The wrapped send
XhrSend(o, maxRecords) ==
    LET url      == xhr[o].mockUrl
        method   == xhr[o].mockMethod
        captured == url # <<>> /\ method # ""
        rule     == IF captured THEN matchRule(config, url, method) ELSE NoRule
        log      == addRequestLog(url, method, rule # NoRule,
                                  IF rule # NoRule THEN rule.id ELSE NoId)
    IN
    \* bounds: MaxSends calls on one object, maxRecords entries recorded
    /\ xhr[o].sends < MaxSends
    /\ (captured /\ config.logRequests) => nextLogId <= maxRecords
    /\ IF captured
       THEN /\ requestLogs' = log.logs
            /\ nextLogId' = log.next
            /\ recorded' = log.count
       ELSE UNCHANGED logVars
    /\ IF rule # NoRule
       THEN /\ Len(timers) < MaxInFlight
            /\ timers' = Append(timers, Timer("xhr", o, rule, xhr[o].sends + 1))
            /\ xhr' = [xhr EXCEPT ![o].intercepted = TRUE,
                                  ![o].sends = @ + 1]
       ELSE /\ timers' = timers
            /\ xhr' = [xhr EXCEPT ![o].origSends = @ + 1,
                                  ![o].sends = @ + 1]
    /\ UNCHANGED <<panelVars, fetchCalls>>

\* The own properties of the object once the callback has installed the
\* response of rule
Installed(rule) ==
    [installed    |-> TRUE,
     readyState   |-> 4,
     status       |-> rule.statusCode,
     statusText   |-> "OK",
     responseText |-> rule.responseData,
     response     |-> IF rule.responseType = "json"
                         /\ ~ JsonParseThrows(rule.responseData)
                      THEN [parsed |-> JsonReserialize(rule.responseData)]
                      ELSE [raw |-> rule.responseData],
     jsonTyped    |-> rule.responseType = "json"
                         /\ ~ JsonParseThrows(rule.responseData),
     contentType  |-> ContentType(rule)]

\* String.prototype.toLowerCase on the header names the model uses
ToLowerCase(name) ==
    CASE name \in {"Content-Type", "CONTENT-TYPE"} -> "content-type"
      [] name = "Content-Length" -> "content-length"
      [] name = "X-Token" -> "x-token"
      [] OTHER -> name

NotPresent == "null"

\* A getResponseHeader override that compares the name as written
getResponseHeaderExactCase(own, name) ==
    IF name = "Content-Type" THEN own.contentType ELSE NotPresent

\* The getResponseHeader override of lines 295-300 on an object whose
\* installed properties are own
getResponseHeader(own, name) ==
    IF ToLowerCase(name) = "content-type" THEN own.contentType ELSE NotPresent

\* The getAllResponseHeaders override of lines 292-294: its lines as
\* <<name, value>> pairs
getAllResponseHeaders(own) == << <<"Content-Type", own.contentType>> >>

\* What a listener reads as status while own is what the object holds
StatusOf(own) == IF own.installed THEN own.status ELSE NativeStatus

\* One dispatchEvent of the callback as its listeners see it: the readyState
\* just defined, and the response properties (own) the object holds by then
Notification(type, readyState, own, t) ==
    [type |-> type, readyState |-> readyState, status |-> StatusOf(own),
     seen |-> own, exch |-> t.exch, after |-> t.waited]

\* A callback that dispatches load before the last readystatechange
NotificationsLoadFirst(own, t) ==
    << Notification("readystatechange", 1, own, t),
       Notification("readystatechange", 2, own, t),
       Notification("readystatechange", 3, own, t),
       Notification("load", 4, Installed(t.rule), t),
       Notification("readystatechange", 4, Installed(t.rule), t),
       Notification("loadend", 4, Installed(t.rule), t) >>

\* The dispatchEvent calls of the callback, in the order it makes them
Notifications(own, t) ==
    << Notification("readystatechange", 1, own, t),
       Notification("readystatechange", 2, own, t),
       Notification("readystatechange", 3, own, t),
       Notification("readystatechange", 4, Installed(t.rule), t),
       Notification("load", 4, Installed(t.rule), t),
       Notification("loadend", 4, Installed(t.rule), t) >>

\* A callback without the try/catch of lines 264-282: JSON.parse throws out
\* of it, after responseText was installed and before the last notifications
XhrTimerFiresNoCatch(i) ==
    LET t == timers[i]
        o == t.target
        throws == t.rule.responseType = "json"
                    /\ JsonParseThrows(t.rule.responseData)
    IN
    /\ t.kind = "xhr"
    /\ TimerDue(t)
    /\ timers' = RemoveAt(timers, i)
    /\ xhr' = [xhr EXCEPT
                  ![o].own = IF throws
                             THEN [Installed(t.rule) EXCEPT
                                      !.response = [unset |-> TRUE]]
                             ELSE Installed(t.rule),
                  ![o].served = t.rule,
                  ![o].events = IF throws
                                THEN SubSeq(Notifications(xhr[o].own, t), 1, 3)
                                ELSE Notifications(xhr[o].own, t)]
    /\ UNCHANGED <<panelVars, logVars,
                   fetchCalls>>

\* The callback of line 245 runs
XhrTimerFires(i) ==
    LET t == timers[i]
        o == t.target
    IN
    /\ t.kind = "xhr"
    /\ TimerDue(t)
    /\ timers' = RemoveAt(timers, i)
    /\ xhr' = [xhr EXCEPT ![o].own = Installed(t.rule),
                          ![o].served = t.rule,
                          ![o].events = Notifications(xhr[o].own, t)]
    /\ UNCHANGED <<panelVars, logVars,
                   fetchCalls>>

\* The page drops the object and makes a new one with new XMLHttpRequest()
NewXhr(o) ==
    /\ xhr[o] # NewObject
    /\ \A i \in 1..Len(timers) :
          ~ (timers[i].kind = "xhr" /\ timers[i].target = o)
    /\ xhr' = [xhr EXCEPT ![o] = NewObject]
    /\ UNCHANGED <<panelVars, logVars,
                   fetchCalls, timers>>

(***************************************************************************)
(* Specifications                                                          *)
(***************************************************************************)
\* A handler of the panel, taken while the budget of panel actions lasts
Counted(handler) ==
    /\ changes < MaxChanges
    /\ changes' = changes + 1
    /\ handler

\* Both clients at work while the user acts on the panel
Next ==
    \/ \E s \in Slots, args \in FetchInputs : FetchCall(s, args, MaxRecords)
    \/ \E s \in Slots, outcome \in NetworkOutcomes : OrigFetchSettles(s, outcome)
    \/ \E i \in 1..Len(timers) : FetchTimerFires(i)
    \/ \E o \in Objects, in \in XhrInputs : XhrOpen(o, in.method, in.url)
    \/ \E o \in Objects : XhrSend(o, MaxRecords)
    \/ \E i \in 1..Len(timers) : XhrTimerFires(i)
    \/ \E o \in Objects : NewXhr(o)
    \/ Tick
    \/ \E b \in BOOLEAN : Counted(SetEnabled(b))
    \/ \E b \in BOOLEAN : Counted(SetLogRequests(b))
    \/ \E id \in RuleIds : Counted(ToggleRule(id))
    \/ \E id \in RuleIds : Counted(DeleteRule(id))
    \/ Counted(ClearLogs)

Spec == Init /\ [][Next]_vars

\* The page repeats one request through both clients while the user clears
\* the log and switches logging
LogFetchInputs == {[url |-> UrlAB, initMethod |-> None, requestMethod |-> None]}
LogXhrInputs == {[method |-> "GET", url |-> UrlAB]}

InitLog == InitWith({Absent})

NextLog ==
    \/ \E s \in Slots, args \in LogFetchInputs : FetchCall(s, args, LogMaxRecords)
    \/ \E o \in Objects, in \in LogXhrInputs : XhrOpen(o, in.method, in.url)
    \/ \E o \in Objects : XhrSend(o, LogMaxRecords)
    \/ \E o \in Objects : NewXhr(o)
    \/ ClearLogs /\ UNCHANGED changes
    \/ \E b \in BOOLEAN : SetLogRequests(b) /\ UNCHANGED changes

SpecLog == InitLog /\ [][NextLog]_vars

\* A page with several XMLHttpRequest objects and a fetch call at work at
\* once, under two rules of different delays and with a request no rule
\* answers
FlightObjects == 1..MaxFlightObjects

FlightStorage ==
    { Saved([enabled |-> TRUE, rules |-> <<BrokenRule, BracketRule>>,
             showNotification |-> FALSE, logRequests |-> TRUE]) }

FlightXhrInputs ==
    { [method |-> "GET",  url |-> UrlAB],    \* BracketRule, delay 2
      [method |-> "post", url |-> UrlA],     \* BrokenRule, delay 1
      [method |-> "GET",  url |-> UrlB] }    \* no rule

FlightFetchInputs ==
    { [url |-> UrlAB, initMethod |-> None, requestMethod |-> None] }

InitFlight == InitOf(FlightStorage, FlightObjects)

NextFlight ==
    \/ \E s \in Slots, args \in FlightFetchInputs :
          FetchCall(s, args, MaxFlightRecords)
    \/ \E i \in 1..Len(timers) : FetchTimerFires(i)
    \/ \E o \in FlightObjects, in \in FlightXhrInputs :
          XhrOpen(o, in.method, in.url)
    \/ \E o \in FlightObjects : XhrSend(o, MaxFlightRecords)
    \/ \E i \in 1..Len(timers) : XhrTimerFires(i)
    \/ Tick

SpecFlight == InitFlight /\ [][NextFlight]_vars

\* Requests of both clients pending under a rule while the user switches the
\* engine, toggles, edits and deletes the rule and imports configs
PendingStorage ==
    { Saved([enabled |-> TRUE, rules |-> <<BracketRule>>,
             showNotification |-> FALSE, logRequests |-> FALSE]) }

\* The editor's form with a status of the range the form accepts (100..599)
\* that is a null-body status
NoContentForm ==
    [name |-> "nocontent", urlPattern |-> PatBad, method |-> "ALL",
     responseType |-> "text", responseData |-> TextHello,
     statusCode |-> 204, delay |-> 1]

PendingForms == {f \in FormValues : f.name = "user"} \cup {NoContentForm}

InitPending == InitWith(PendingStorage)

NextPending ==
    \/ \E s \in Slots, args \in FlightFetchInputs : FetchCall(s, args, MaxRecords)
    \/ \E s \in Slots, outcome \in NetworkOutcomes : OrigFetchSettles(s, outcome)
    \/ \E i \in 1..Len(timers) : FetchTimerFires(i)
    \/ \E o \in Objects, in \in LogXhrInputs : XhrOpen(o, in.method, in.url)
    \/ \E o \in Objects : XhrSend(o, MaxRecords)
    \/ \E i \in 1..Len(timers) : XhrTimerFires(i)
    \/ Tick
    \/ \E b \in BOOLEAN : Counted(SetEnabled(b))
    \/ \E id \in RuleIds : Counted(ToggleRule(id))
    \/ \E id \in RuleIds : Counted(DeleteRule(id))
    \/ \E id \in RuleIds, f \in PendingForms : Counted(SubmitEditRule(id, f))
    \/ \E file \in ImportFiles, confirmed \in BOOLEAN :
          Counted(importConfig(file, confirmed))

SpecPending == InitPending /\ [][NextPending]_vars

\* A handler of the panel, taken while a budget of max panel actions lasts
CountedTo(max, handler) ==
    /\ changes < max
    /\ changes' = changes + 1
    /\ handler

\* The user works on the panel: settings, rules, import
NextConfig ==
    \/ \E b \in BOOLEAN : CountedTo(MaxConfigChanges, SetEnabled(b))
    \/ \E b \in BOOLEAN : CountedTo(MaxConfigChanges, SetShowNotification(b))
    \/ \E b \in BOOLEAN : CountedTo(MaxConfigChanges, SetLogRequests(b))
    \/ \E id \in RuleIds : CountedTo(MaxConfigChanges, ToggleRule(id))
    \/ \E id \in RuleIds : CountedTo(MaxConfigChanges, DeleteRule(id))
    \/ \E f \in FormValues : CountedTo(MaxConfigChanges, SubmitNewRule(f))
    \/ \E id \in RuleIds, f \in FormValues :
          CountedTo(MaxConfigChanges, SubmitEditRule(id, f))
    \/ \E file \in ImportFiles \cup {exportConfig(config)}, confirmed \in BOOLEAN :
          CountedTo(MaxConfigChanges, importConfig(file, confirmed))

SpecConfig == Init /\ [][NextConfig]_vars

(***************************************************************************)
(* Rule matcher                                                            *)
(***************************************************************************)
RequestMethods == {"GET", "POST", "get", "post"}

\* The three tests a rule has to pass for a request
Qualifies(rule, url, method) ==
    /\ rule.enabled
    /\ rule.method = "ALL" \/ rule.method = ToUpperCase(method)
    /\ UrlMatched(rule, url)

Candidates(url, method) ==
    {i \in 1..Len(config.rules) : Qualifies(config.rules[i], url, method)}

Lowest(S) == CHOOSE i \in S : \A j \in S : i <= j

\* C1: with the engine enabled, matchRule returns the rule at the lowest
\* position among the rules that are enabled and pass the method test and the
\* URL test for the request, and null exactly when no rule passes all three
C1_FirstMatchWins ==
    config.enabled =>
        \A url \in Urls, method \in RequestMethods :
            IF Candidates(url, method) = {}
            THEN /\ matchIndex(config, url, method) = 0
                 /\ matchRule(config, url, method) = NoRule
            ELSE /\ matchIndex(config, url, method) = Lowest(Candidates(url, method))
                 /\ matchRule(config, url, method)
                        = config.rules[Lowest(Candidates(url, method))]

\* A fetch call was answered by the first of two rules that both qualify
C1_Witness ==
    /\ config.enabled
    /\ \E s \in Slots :
          /\ fetchCalls[s].state = "settled"
          /\ Candidates(fetchCalls[s].args.url, FetchMethod(fetchCalls[s].args)) = {1, 2}
          /\ fetchCalls[s].rule = config.rules[1]
          /\ config.rules[1] # config.rules[2]

\* C2: while config.enabled is false matchRule returns null for every request,
\* every fetch call and every send() goes to the original and sets no timer
C2_DisabledPassesThrough ==
    [][ ~ config.enabled =>
          /\ \A url \in Urls, method \in RequestMethods :
                matchRule(config, url, method) = NoRule
          /\ \A s \in Slots, args \in FetchInputs :
                FetchCall(s, args, MaxRecords) =>
                    /\ fetchCalls'[s].state = "delegated"
                    /\ fetchCalls'[s].orig.called
                    /\ timers' = timers
          /\ \A o \in Objects :
                XhrSend(o, MaxRecords) =>
                    /\ xhr'[o].origSends = xhr[o].origSends + 1
                    /\ xhr'[o].intercepted = xhr[o].intercepted
                    /\ timers' = timers ]_vars

\* With the engine off, both clients passed on a request that an enabled rule
\* of the list would answer
C2_Witness ==
    /\ ~ config.enabled
    /\ \E s \in Slots :
          /\ fetchCalls[s].state = "delegated"
          /\ matchLoop(config.rules, 1, fetchCalls[s].args.url,
                       FetchMethod(fetchCalls[s].args)) # 0
    /\ \E o \in Objects :
          /\ xhr[o].origSends > 0
          /\ ~ xhr[o].intercepted
          /\ matchLoop(config.rules, 1, xhr[o].mockUrl, xhr[o].mockMethod) # 0

EqualIgnoringCase(a, b) == ToUpperCase(a) = ToUpperCase(b)

\* C13: a rule whose method is not ALL passes the method test for a request
\* exactly when its method and the request's method are equal ignoring letter
\* case, whichever of the two is written in lower case; a rule with method ALL
\* passes it for every request method
C13_MethodIgnoringCase ==
    \A i \in 1..Len(config.rules), method \in RequestMethods :
        LET rule == config.rules[i] IN
        IF rule.method = "ALL"
        THEN MethodCompatible(rule, method)
        ELSE MethodCompatible(rule, method)
                <=> EqualIgnoringCase(rule.method, method)

\* The configuration that holds this rule alone, enabled and for every method
Alone(rule) ==
    [enabled |-> TRUE,
     rules |-> << [rule EXCEPT !.enabled = TRUE, !.method = "ALL"] >>]

\* C14: a rule whose urlPattern does not compile is not skipped: it matches a
\* URL exactly when the URL contains urlPattern as a substring; a rule whose
\* urlPattern compiles matches exactly when the regular expression does
C14_PatternFallback ==
    \A i \in 1..Len(config.rules), url \in Urls :
        LET rule == config.rules[i]
            hit  == matchRule(Alone(rule), url, "GET") # NoRule
        IN  IF RegExpThrows(rule.urlPattern)
            THEN hit <=> Includes(url, rule.urlPattern)
            ELSE hit <=> RegExpTest(rule.urlPattern, url)

\* A fetch call was answered by a rule whose pattern does not compile and is
\* a substring of the call's URL, and the same rule is in the list for a URL
\* that does not contain the pattern
C14_Witness ==
    \E s \in Slots :
        /\ fetchCalls[s].state = "settled"
        /\ fetchCalls[s].rule # NoRule
        /\ RegExpThrows(fetchCalls[s].rule.urlPattern)
        /\ Includes(fetchCalls[s].args.url, fetchCalls[s].rule.urlPattern)
        /\ \E i \in 1..Len(config.rules), url \in Urls :
              /\ config.rules[i] = fetchCalls[s].rule
              /\ ~ Includes(url, config.rules[i].urlPattern)

(***************************************************************************)
(* The wrapped send and the wrapped fetch                                  *)
(***************************************************************************)
\* send() on object o finds a rule
SendMatches(o) ==
    /\ xhr[o].mockUrl # <<>>
    /\ xhr[o].mockMethod # ""
    /\ matchRule(config, xhr[o].mockUrl, xhr[o].mockMethod) # NoRule

\* C3: a send() that finds a rule sets one timer for its object and does not
\* call the original send; a send() that finds none calls the original send
\* once and sets no timer
C3_SendEitherOr ==
    [][ \A o \in Objects :
          XhrSend(o, MaxRecords) =>
              IF SendMatches(o)
              THEN /\ xhr'[o].origSends = xhr[o].origSends
                   /\ Len(timers') = Len(timers) + 1
                   /\ SubSeq(timers', 1, Len(timers)) = timers
                   /\ timers'[Len(timers')].kind = "xhr"
                   /\ timers'[Len(timers')].target = o
              ELSE /\ xhr'[o].origSends = xhr[o].origSends + 1
                   /\ timers' = timers ]_vars

\* A matched send() is pending and the original send was never called
C3_Witness ==
    \E o \in Objects :
        /\ xhr[o].intercepted
        /\ xhr[o].sends = 1
        /\ xhr[o].origSends = 0
        /\ \E i \in 1..Len(timers) : timers[i].kind = "xhr" /\ timers[i].target = o

\* C4: an unmatched fetch call invokes the original fetch once with the
\* caller's arguments and settles exactly as the original's promise does; a
\* matched call never invokes the original fetch
C4_FetchPassThrough ==
    \A s \in Slots :
        /\ fetchCalls[s].state = "delegated" =>
              /\ fetchCalls[s].orig.called
              /\ fetchCalls[s].orig.times = 1
              /\ fetchCalls[s].orig.args = fetchCalls[s].args
        /\ (fetchCalls[s].state = "settled" /\ fetchCalls[s].rule = NoRule) =>
              /\ fetchCalls[s].orig.called
              /\ fetchCalls[s].orig.times = 1
              /\ fetchCalls[s].orig.args = fetchCalls[s].args
              /\ fetchCalls[s].outcome = fetchCalls[s].orig.outcome
        /\ (fetchCalls[s].state \in {"waiting", "settled"}
              /\ fetchCalls[s].rule # NoRule) =>
              ~ fetchCalls[s].orig.called

\* The real fetch rejected and so did the wrapper's promise
C4_Witness ==
    \E s \in Slots :
        /\ fetchCalls[s].state = "settled"
        /\ fetchCalls[s].rule = NoRule
        /\ fetchCalls[s].outcome.kind = "rejected"
        /\ fetchCalls[s].outcome.source = "network"

\* C5: the promise of a matched fetch call resolves to a response and never
\* rejects, whatever statusCode and responseData the rule holds
C5_MatchedFetchNeverRejects ==
    \A s \in Slots :
        (fetchCalls[s].state = "settled" /\ fetchCalls[s].rule # NoRule) =>
            fetchCalls[s].outcome.kind = "resolved"

\* The method the arguments of a fetch call specify: that of init, else that
\* of the Request passed as input, else GET
SpecifiedMethod(args) ==
    IF args.initMethod # None THEN args.initMethod
    ELSE IF args.requestMethod # None THEN args.requestMethod
    ELSE "GET"

\* C26: the wrapped fetch matches and logs a call under the method its
\* arguments specify, in init or in the Request passed as input, and under
\* GET only when they specify none
C26_FetchMethodFromArguments ==
    [][ \A s \in Slots, args \in FetchInputs :
          FetchCall(s, args, MaxRecords) =>
              /\ fetchCalls'[s].rule
                    = matchRule(config, args.url, SpecifiedMethod(args))
              /\ config.logRequests =>
                    requestLogs'[1].method = SpecifiedMethod(args)
      ]_vars

\* What the wrappers hand to the log for a request
LoggedAs(log, url, method) ==
    LET rule == matchRule(config, url, method) IN
    /\ log # <<>>
    /\ log[1].url = url
    /\ log[1].method = method
    /\ log[1].matched = (rule # NoRule)
    /\ log[1].ruleId = IF rule # NoRule THEN rule.id ELSE NoId

\* C11: while config.logRequests is true, every call of the wrapped fetch and
\* every send() on an object that open() was called on adds exactly one entry
\* at the head of the log, whose matched flag is the matcher's outcome for the
\* call and whose ruleId is the matched rule's id, or none when unmatched
C11_EveryCallLogged ==
    [][ config.logRequests =>
          /\ \A s \in Slots, args \in FetchInputs :
                FetchCall(s, args, MaxRecords) =>
                    /\ nextLogId' = nextLogId + 1
                    /\ Len(requestLogs') = Len(requestLogs) + 1
                    /\ Tail(requestLogs') = requestLogs
                    /\ LoggedAs(requestLogs', args.url, FetchMethod(args))
          /\ \A o \in Objects :
                (xhr[o].origOpen.called /\ XhrSend(o, MaxRecords)) =>
                    /\ nextLogId' = nextLogId + 1
                    /\ Len(requestLogs') = Len(requestLogs) + 1
                    /\ Tail(requestLogs') = requestLogs
                    /\ LoggedAs(requestLogs', xhr[o].mockUrl, xhr[o].mockMethod)
      ]_vars

\* C12: while config.logRequests is false, no fetch call and no send() changes
\* the request log, and the call is matched and answered as the matcher
\* decides: an unmatched call goes to the original, a matched one is answered
\* with the response of its rule
C12_NoLogWhenOff ==
    [][ ~ config.logRequests =>
          /\ \A s \in Slots, args \in FetchInputs :
                FetchCall(s, args, MaxRecords) =>
                    LET rule == matchRule(config, args.url, FetchMethod(args)) IN
                    /\ requestLogs' = requestLogs
                    /\ nextLogId' = nextLogId
                    /\ fetchCalls'[s].rule = rule
                    /\ rule = NoRule <=> fetchCalls'[s].state = "delegated"
                    /\ (rule # NoRule /\ rule.delay = 0) =>
                          fetchCalls'[s].outcome = Synthesize(rule, 0)
                    /\ (rule # NoRule /\ rule.delay > 0) =>
                          timers'[Len(timers')].rule = rule
          /\ \A o \in Objects :
                XhrSend(o, MaxRecords) =>
                    /\ requestLogs' = requestLogs
                    /\ nextLogId' = nextLogId
                    /\ IF SendMatches(o)
                       THEN /\ xhr'[o].intercepted
                            /\ timers'[Len(timers')].rule
                                  = matchRule(config, xhr[o].mockUrl, xhr[o].mockMethod)
                       ELSE /\ xhr'[o].origSends = xhr[o].origSends + 1
                            /\ timers' = timers
      ]_vars

\* With logging off from the start, a fetch call and a send() were both
\* answered by a rule and the log never got an entry
C12_Witness ==
    /\ ~ config.logRequests
    /\ nextLogId = 1
    /\ requestLogs = <<>>
    /\ \E s \in Slots :
          /\ fetchCalls[s].state = "settled"
          /\ fetchCalls[s].rule # NoRule
          /\ fetchCalls[s].outcome.kind = "resolved"
    /\ \E o \in Objects : xhr[o].intercepted /\ xhr[o].events # <<>>

(***************************************************************************)
(* Synthesized notifications                                               *)
(***************************************************************************)
\* C6: the notifications of a matched send() are readystatechange with
\* readyState 1, 2, 3 and 4, then load, then loadend, in this order, all of
\* the same exchange
C6_NotificationOrder ==
    \A o \in Objects :
        LET ev == xhr[o].events IN
        ev # <<>> =>
            /\ Len(ev) = 6
            /\ \A k \in 1..4 :
                  ev[k].type = "readystatechange" /\ ev[k].readyState = k
            /\ ev[5].type = "load"
            /\ ev[6].type = "loadend"
            /\ \A k \in 1..5 : ev[k].readyState <= ev[k + 1].readyState
            /\ \A k \in 1..6 : ev[k].exch = ev[1].exch

\* The first of two exchanges of one object has run while the second waits
C6_Witness ==
    \E o \in Objects :
        /\ xhr[o].events # <<>>
        /\ xhr[o].events[1].exch = 1
        /\ \E i \in 1..Len(timers) :
              /\ timers[i].kind = "xhr"
              /\ timers[i].target = o
              /\ timers[i].exch = 2

\* The rule is typed json and its responseData does not parse
BadJson(rule) ==
    /\ rule # NoRule
    /\ rule.responseType = "json"
    /\ JsonParseThrows(rule.responseData)

\* C15: the callback of a matched send() whose rule is typed json with
\* responseData that does not parse runs to its end: response is the
\* responseData string as written, and the last readystatechange, load and
\* loadend are dispatched in this order
C15_BadJsonStillCompletes ==
    \A o \in Objects :
        (xhr[o].events # <<>> /\ BadJson(xhr[o].served)) =>
            LET ev == xhr[o].events IN
            /\ xhr[o].own.installed
            /\ xhr[o].own.responseText = xhr[o].served.responseData
            /\ xhr[o].own.response = [raw |-> xhr[o].served.responseData]
            /\ Len(ev) = 6
            /\ ev[4].type = "readystatechange" /\ ev[4].readyState = 4
            /\ ev[5].type = "load"
            /\ ev[6].type = "loadend"

\* A send() was answered by a rule typed json whose responseData does not parse
C15_Witness ==
    \E o \in Objects :
        /\ xhr[o].events # <<>>
        /\ BadJson(xhr[o].served)
        /\ xhr[o].own.response = [raw |-> JsonBad]

\* C21: in the readystatechange of a synthesized exchange that shows
\* readyState 4 the object already holds the rule's statusCode as status, its
\* responseData as responseText, a response and the Content-Type answer; in
\* the notifications for readyState 1, 2 and 3 the object holds none of the
\* synthesized response properties
C21_InstalledOnlyAtDone ==
    \A o \in Objects :
        LET ev == xhr[o].events IN
        ev # <<>> =>
            /\ \A k \in 1..3 : ~ ev[k].seen.installed
            /\ ev[4].readyState = 4
            /\ ev[4].seen.installed
            /\ ev[4].seen.status = xhr[o].served.statusCode
            /\ ev[4].seen.responseText = xhr[o].served.responseData
            /\ ev[4].seen.response \in
                  { [raw |-> xhr[o].served.responseData],
                    [parsed |-> JsonReserialize(xhr[o].served.responseData)] }
            /\ ev[4].seen.contentType = ContentType(xhr[o].served)

\* C25: after a send() that is matched against the rules and finds none, the
\* page reads from the object what the real transport produces: the object
\* holds no response property of an earlier synthesized exchange, also when
\* it completed one and was opened again
C25_UnmatchedReadsTransport ==
    [][ \A o \in Objects :
          (xhr[o].mockUrl # <<>> /\ XhrSend(o, MaxRecords) /\ ~ SendMatches(o)) =>
              ~ xhr'[o].own.installed ]_vars

HeaderNames ==
    {"Content-Type", "content-type", "CONTENT-TYPE", "Content-Length", "X-Token"}

\* C28: the Content-Type of a synthesized response is application/json when
\* the rule's responseType is json and text/plain otherwise, in the response
\* of the wrapped fetch and in the header accessors of a completed send()
\* alike; getResponseHeader answers the name Content-Type in any letter case
\* and not-present for every other name
C28_ContentTypeFromResponseType ==
    /\ \A s \in Slots :
          (/\ fetchCalls[s].state = "settled"
           /\ fetchCalls[s].rule # NoRule
           /\ fetchCalls[s].outcome.kind = "resolved") =>
              fetchCalls[s].outcome.contentType
                  = IF fetchCalls[s].rule.responseType = "json"
                    THEN "application/json" ELSE "text/plain"
    /\ \A o \in Objects :
          xhr[o].events # <<>> =>
              LET type == IF xhr[o].served.responseType = "json"
                          THEN "application/json" ELSE "text/plain"
              IN  /\ \A name \in HeaderNames :
                        getResponseHeader(xhr[o].own, name)
                            = IF name \in {"Content-Type", "content-type",
                                           "CONTENT-TYPE"}
                              THEN type ELSE NotPresent
                  /\ getAllResponseHeaders(xhr[o].own)
                        = << <<"Content-Type", type>> >>

\* A fetch call was answered with a json response and a send() with a text
\* response
C28_Witness ==
    /\ \E s \in Slots :
          /\ fetchCalls[s].state = "settled"
          /\ fetchCalls[s].rule # NoRule
          /\ fetchCalls[s].outcome.kind = "resolved"
          /\ fetchCalls[s].outcome.contentType = "application/json"
    /\ \E o \in Objects :
          /\ xhr[o].events # <<>>
          /\ getResponseHeader(xhr[o].own, "content-type") = "text/plain"

\* The config with other values of the two flags the matcher does not read
WithFlags(cfg, show, log) ==
    [cfg EXCEPT !.showNotification = show, !.logRequests = log]

\* C29: what a request is matched to and answered with depends on
\* config.enabled, the rule list, the URL and the method only: in every
\* reachable state, whatever the log holds and whatever requests came before,
\* a call gets the rule and the response that matchRule gives under any
\* values of showNotification and logRequests
C29_MatchDependsOnRulesOnly ==
    [][ /\ \A s \in Slots, args \in FetchInputs :
              FetchCall(s, args, MaxRecords) =>
                  \A show \in BOOLEAN, log \in BOOLEAN :
                      LET rule == matchRule(WithFlags(config, show, log),
                                            args.url, FetchMethod(args))
                      IN  /\ fetchCalls'[s].rule = rule
                          /\ (rule # NoRule /\ rule.delay = 0) =>
                                fetchCalls'[s].outcome = Synthesize(rule, 0)
                          /\ (rule # NoRule /\ rule.delay > 0) =>
                                timers'[Len(timers')].rule = rule
        /\ \A o \in Objects :
              (XhrSend(o, MaxRecords) /\ xhr'[o].intercepted
                  /\ Len(timers') > Len(timers)) =>
                  \A show \in BOOLEAN, log \in BOOLEAN :
                      timers'[Len(timers')].rule
                          = matchRule(WithFlags(config, show, log),
                                      xhr[o].mockUrl, xhr[o].mockMethod)
      ]_vars

\* With both flags off and an entry in the log, a fetch call was answered by
\* a rule
C29_Witness ==
    /\ ~ config.showNotification
    /\ ~ config.logRequests
    /\ requestLogs # <<>>
    /\ \E s \in Slots :
          /\ fetchCalls[s].state = "settled"
          /\ fetchCalls[s].rule # NoRule
          /\ fetchCalls[s].rule = matchRule(config, fetchCalls[s].args.url,
                                            FetchMethod(fetchCalls[s].args))

\* C30: in every reachable state, after any sequence of add, edit, toggle,
\* delete and import actions, the rules of the config have pairwise distinct
\* ids
C30_RuleIdsDistinct ==
    \A i \in 1..Len(config.rules), j \in 1..Len(config.rules) :
        i # j => config.rules[i].id # config.rules[j].id

\* C31: the position of a rule in the list changes only by adding and
\* deleting: an edit keeps the position, id and enabled flag of the rule and
\* leaves the other rules alone, a toggle changes the enabled flag of one
\* rule and nothing else, a new rule goes to the end of the list, and a
\* delete by id removes one rule and leaves the others as they were, in
\* their order
C31_PositionsKept ==
    [][ /\ \A id \in RuleIds, f \in FormValues :
              SubmitEditRule(id, f) =>
                  /\ Len(config'.rules) = Len(config.rules)
                  /\ \E i \in 1..Len(config.rules) :
                        /\ config.rules[i].id = id
                        /\ config'.rules[i].id = id
                        /\ config'.rules[i].enabled = config.rules[i].enabled
                        /\ config'.rules[i] = FormRule(id, config.rules[i].enabled, f)
                        /\ \A k \in 1..Len(config.rules) :
                              k # i => config'.rules[k] = config.rules[k]
        /\ \A id \in RuleIds :
              ToggleRule(id) =>
                  \E i \in 1..Len(config.rules) :
                      /\ config.rules[i].id = id
                      /\ config'.rules =
                            [config.rules EXCEPT
                                ![i].enabled = ~ config.rules[i].enabled]
        /\ \A f \in FormValues :
              SubmitNewRule(f) =>
                  /\ Len(config'.rules) = Len(config.rules) + 1
                  /\ SubSeq(config'.rules, 1, Len(config.rules)) = config.rules
                  /\ config'.rules[Len(config'.rules)]
                        = FormRule(nextRuleId, TRUE, f)
        /\ \A id \in RuleIds :
              DeleteRule(id) =>
                  \E i \in 1..Len(config.rules) :
                      /\ config.rules[i].id = id
                      /\ config'.rules = RemoveAt(config.rules, i)
      ]_vars

\* C22: every open() goes to the original open with its arguments, matched
\* or not, and leaves its method and URL on its own object alone; a send()
\* is matched against the latest open() of its own object, whatever the
\* other objects were opened with and in whatever order the calls come
C22_OpenSendPerObject ==
    [][ /\ \A o \in FlightObjects, in \in FlightXhrInputs :
              XhrOpen(o, in.method, in.url) =>
                  /\ xhr'[o].origOpen = [called |-> TRUE, method |-> in.method,
                                         url |-> in.url]
                  /\ xhr'[o].mockMethod = in.method
                  /\ xhr'[o].mockUrl = in.url
                  /\ \A p \in FlightObjects \ {o} : xhr'[p] = xhr[p]
        /\ \A o \in FlightObjects :
              XhrSend(o, MaxFlightRecords) =>
                  LET opened == xhr[o].origOpen
                      rule == IF opened.called
                              THEN matchRule(config, opened.url, opened.method)
                              ELSE NoRule
                  IN  /\ rule # NoRule =>
                            /\ timers' = Append(timers, Timer("xhr", o, rule,
                                                              xhr[o].sends + 1))
                            /\ xhr'[o].origSends = xhr[o].origSends
                      /\ rule = NoRule =>
                            /\ timers' = timers
                            /\ xhr'[o].origSends = xhr[o].origSends + 1
                      /\ \A p \in FlightObjects \ {o} : xhr'[p] = xhr[p]
      ]_vars

\* Two objects opened with different requests, both sent: the one is being
\* answered by a rule, the other went to the network
C22_Witness ==
    \E o \in FlightObjects, p \in FlightObjects :
        /\ xhr[o].mockUrl = UrlAB
        /\ xhr[o].sends = 1
        /\ \E i \in 1..Len(timers) :
              /\ timers[i].kind = "xhr"
              /\ timers[i].target = o
              /\ timers[i].rule = BracketRule
        /\ xhr[p].mockUrl = UrlB
        /\ xhr[p].sends = 1
        /\ xhr[p].origSends = 1
        /\ ~ xhr[p].intercepted

\* C23: with several matched requests in flight, of different delays and of
\* both clients, every call adds exactly one entry at the head of the log
\* when it is issued, no completion adds, drops or moves an entry, and the
\* log lists the calls in the order of issue, the most recent first
C23_LogInIssueOrder ==
    [][ /\ \A s \in Slots, args \in FlightFetchInputs :
              FetchCall(s, args, MaxFlightRecords) =>
                  /\ Len(requestLogs') = Len(requestLogs) + 1
                  /\ Tail(requestLogs') = requestLogs
                  /\ requestLogs'[1].url = args.url
                  /\ requestLogs'[1].method = FetchMethod(args)
                  /\ requestLogs'[1].id = recorded + 1
        /\ \A o \in FlightObjects :
              (xhr[o].origOpen.called /\ XhrSend(o, MaxFlightRecords)) =>
                  /\ Len(requestLogs') = Len(requestLogs) + 1
                  /\ Tail(requestLogs') = requestLogs
                  /\ requestLogs'[1].url = xhr[o].origOpen.url
                  /\ requestLogs'[1].method = xhr[o].origOpen.method
                  /\ requestLogs'[1].id = recorded + 1
        /\ (\/ Tick
            \/ \E i \in 1..Len(timers) : FetchTimerFires(i)
            \/ \E i \in 1..Len(timers) : XhrTimerFires(i)) =>
                  requestLogs' = requestLogs
        /\ \A i \in 1..Len(requestLogs') :
              requestLogs'[i].id = Len(requestLogs') + 1 - i
      ]_vars

\* A fetch call under the longer delay is still waiting while a send()
\* issued after it, under the shorter delay, has completed; the log holds
\* the two in the order of issue
C23_Witness ==
    /\ Len(requestLogs) = 2
    /\ requestLogs[2].url = UrlAB /\ requestLogs[2].ruleId = BracketRule.id
    /\ requestLogs[1].url = UrlA /\ requestLogs[1].ruleId = BrokenRule.id
    /\ \E s \in Slots : fetchCalls[s].state = "waiting"
    /\ \E i \in 1..Len(timers) :
          timers[i].kind = "fetch" /\ timers[i].rule = BracketRule
    /\ \E o \in FlightObjects :
          /\ xhr[o].events # <<>>
          /\ xhr[o].served = BrokenRule
    /\ \A o \in FlightObjects : xhr[o].mockUrl # UrlAB

\* C24: the response a matched request delivers is that of the rule as it
\* was when the request was matched: the rule is taken at the call, no action
\* on the panel (engine switch, toggle, edit, delete, import) changes or
\* removes a pending response, and the completion gives the status, body and
\* content type of that rule
C24_ResponseOfMatchedRule ==
    [][ /\ \A s \in Slots, args \in FlightFetchInputs :
              FetchCall(s, args, MaxRecords) =>
                  fetchCalls'[s].rule
                      = matchRule(config, args.url, FetchMethod(args))
        /\ \A o \in Objects :
              (XhrSend(o, MaxRecords) /\ Len(timers') > Len(timers)) =>
                  timers'[Len(timers')].rule
                      = matchRule(config, xhr[o].mockUrl, xhr[o].mockMethod)
        /\ changes' # changes =>
              /\ timers' = timers
              /\ fetchCalls' = fetchCalls
              /\ xhr' = xhr
        /\ Tick =>
              /\ Len(timers') = Len(timers)
              /\ \A i \in 1..Len(timers) : timers'[i].rule = timers[i].rule
        /\ \A i \in 1..Len(timers) :
              FetchTimerFires(i) =>
                  LET s == timers[i].target
                      rule == fetchCalls[s].rule
                      outcome == fetchCalls'[s].outcome
                  IN  /\ timers[i].rule = rule
                      /\ outcome = Synthesize(rule, timers[i].waited)
                      /\ outcome.kind = "resolved" =>
                            /\ outcome.status = rule.statusCode
                            /\ outcome.body
                                  = IF rule.responseType = "json"
                                    THEN JsonReserialize(rule.responseData)
                                    ELSE rule.responseData
                            /\ outcome.contentType = ContentType(rule)
        /\ \A i \in 1..Len(timers) :
              XhrTimerFires(i) =>
                  LET o == timers[i].target
                      rule == timers[i].rule
                  IN  /\ xhr'[o].own = Installed(rule)
                      /\ xhr'[o].own.status = rule.statusCode
                      /\ xhr'[o].own.responseText = rule.responseData
                      /\ xhr'[o].own.contentType = ContentType(rule)
                      /\ xhr'[o].events # <<>>
      ]_vars

\* A send() was answered with the response of the rule it matched, and a
\* fetch call that matched the same rule is still waiting, while the config
\* no longer answers that request with that rule
C24_Witness ==
    /\ \E o \in Objects :
          /\ xhr[o].events # <<>>
          /\ xhr[o].served = BracketRule
          /\ xhr[o].own.status = 503
          /\ matchRule(config, xhr[o].mockUrl, xhr[o].mockMethod) # BracketRule
    /\ \E i \in 1..Len(timers) :
          /\ timers[i].kind = "fetch"
          /\ timers[i].rule = BracketRule
          /\ fetchCalls[timers[i].target].state = "waiting"

\* C27: whatever integer statusCode a matched rule carries, the completed
\* synthesized response reports that statusCode as its status, in the
\* wrapped fetch and in XMLHttpRequest alike, and for a text rule its body is
\* the rule's responseData (rules whose json text does not parse set aside)
C27_StatusVerbatim ==
    /\ \A s \in Slots :
          (/\ fetchCalls[s].state = "settled"
           /\ fetchCalls[s].rule # NoRule
           /\ fetchCalls[s].rule.statusCode # NaN
           /\ ~ (/\ fetchCalls[s].rule.responseType = "json"
                 /\ JsonParseThrows(fetchCalls[s].rule.responseData))) =>
              /\ fetchCalls[s].outcome.kind = "resolved"
              /\ fetchCalls[s].outcome.status = fetchCalls[s].rule.statusCode
              /\ fetchCalls[s].rule.responseType = "text" =>
                    fetchCalls[s].outcome.body = fetchCalls[s].rule.responseData
    /\ \A o \in Objects :
          (xhr[o].events # <<>> /\ xhr[o].served.statusCode # NaN) =>
              /\ xhr[o].own.status = xhr[o].served.statusCode
              /\ xhr[o].served.responseType = "text" =>
                    xhr[o].own.responseText = xhr[o].served.responseData

\* C8: nothing of a synthesized response with delay d > 0 is seen before d
\* ticks have passed since the call, and the six notifications of a send()
\* come after one wait
C8_NotBeforeDelay ==
    /\ \A s \in Slots :
          (/\ fetchCalls[s].state = "settled"
           /\ fetchCalls[s].rule # NoRule
           /\ fetchCalls[s].rule.delay > 0) =>
              fetchCalls[s].outcome.after >= fetchCalls[s].rule.delay
    /\ \A o \in Objects :
          (xhr[o].events # <<>> /\ xhr[o].served.delay > 0) =>
              \A k \in 1..Len(xhr[o].events) :
                  /\ xhr[o].events[k].after >= xhr[o].served.delay
                  /\ xhr[o].events[k].after = xhr[o].events[1].after
    /\ \A i \in 1..Len(timers) :
          timers[i].waited < timers[i].rule.delay =>
              IF timers[i].kind = "fetch"
              THEN fetchCalls[timers[i].target].state = "waiting"
              ELSE \A k \in 1..Len(xhr[timers[i].target].events) :
                      xhr[timers[i].target].events[k].exch # timers[i].exch

\* Both clients completed a response with a delay exactly when it had elapsed
C8_Witness ==
    /\ \E s \in Slots :
          /\ fetchCalls[s].state = "settled"
          /\ fetchCalls[s].rule # NoRule
          /\ fetchCalls[s].rule.delay > 0
          /\ fetchCalls[s].outcome.after = fetchCalls[s].rule.delay
    /\ \E o \in Objects :
          /\ xhr[o].events # <<>>
          /\ xhr[o].served.delay > 0
          /\ xhr[o].events[6].after = xhr[o].served.delay

(***************************************************************************)
(* Completion under fair timers                                            *)
(***************************************************************************)
\* Time passes and every timer that is due runs its callback
Fairness ==
    /\ WF_vars(Tick)
    /\ \A s \in Slots :
          WF_vars(\E i \in 1..Len(timers) :
                      timers[i].target = s /\ FetchTimerFires(i))
    /\ \A o \in Objects :
          WF_vars(\E i \in 1..Len(timers) :
                      timers[i].target = o /\ XhrTimerFires(i))

FairSpec == Init /\ [][Next]_vars /\ Fairness

\* The timer of exchange e of object o is pending
XhrPending(o, e) ==
    \E i \in 1..Len(timers) :
        timers[i].kind = "xhr" /\ timers[i].target = o /\ timers[i].exch = e

\* Exchange e of object o has fired its loadend
XhrCompleted(o, e) ==
    /\ xhr[o].events # <<>>
    /\ xhr[o].events[Len(xhr[o].events)].type = "loadend"
    /\ xhr[o].events[Len(xhr[o].events)].exch = e

\* C7: with fair timers every matched request completes, whatever the panel
\* does meanwhile: the promise of a matched fetch call is settled with a
\* response and a matched send() fires its loadend
C7_MatchedCompletes ==
    /\ \A s \in Slots :
          (fetchCalls[s].state = "waiting")
              ~> (fetchCalls[s].state = "settled"
                    /\ fetchCalls[s].outcome.kind = "resolved")
    /\ \A o \in Objects, e \in 1..MaxSends :
          XhrPending(o, e) ~> XhrCompleted(o, e)

(***************************************************************************)
(* Request log                                                             *)
(***************************************************************************)
\* C9: the request log never holds more than 100 entries
C9_LogAtMostHundred == Len(requestLogs) <= LogCapacity

\* The log is full and an entry has been dropped from it
C9_Witness ==
    /\ Len(requestLogs) = LogCapacity
    /\ recorded = LogCapacity + 1

Min(a, b) == IF a <= b THEN a ELSE b

\* C10: after n entries were recorded since the log was last cleared, the log
\* holds the min(n, 100) entries recorded last, the latest first
C10_KeepsNewestFirst ==
    /\ Len(requestLogs) = Min(recorded, LogCapacity)
    /\ \A i \in 1..Len(requestLogs) : requestLogs[i].id = nextLogId - i

\* 150 entries were recorded: those with ids 51..150 are in the log, 150 first
C10_Witness ==
    /\ recorded = 150
    /\ Len(requestLogs) = 100
    /\ requestLogs[1].id = 150
    /\ requestLogs[100].id = 51

(***************************************************************************)
(* Configuration: import, export, persistence                              *)
(***************************************************************************)
\* The documents importConfig can be given in the current state
ImportDocuments == (ImportFiles \ {Corrupt}) \cup {exportConfig(config)}

ConfigKeys == {"enabled", "rules", "showNotification", "logRequests"}

\* C16: after any sequence of rule and settings changes, a confirmed import of
\* a document sets every top-level key the document lacks to its hard-coded
\* default (enabled true, rules empty, showNotification true, logRequests
\* true) and every key it has to the document's value: the config that loading
\* the document from storage at startup gives
C16_ImportMergesDefaults ==
    [][ \A file \in ImportDocuments :
          importConfig(file, TRUE) =>
              /\ \A k \in ConfigKeys :
                    config'[k] = IF k \in DOMAIN file.doc THEN file.doc[k]
                                 ELSE HardDefaults[k]
              /\ config' = loadConfig(file, HardDefaults).config
      ]_vars

\* C17: importing the document exportConfig writes for the current config
\* gives a config with the same rules in the same order with the same field
\* values, and the same three flags
C17_ExportImportRoundTrip ==
    [][ importConfig(exportConfig(config), TRUE) =>
          /\ config'.rules = config.rules
          /\ config'.enabled = config.enabled
          /\ config'.showNotification = config.showNotification
          /\ config'.logRequests = config.logRequests
      ]_vars

\* C18: every step that changes the config or writes the store leaves under
\* 'mock_config' a text that parses to the config in memory
C18_StoreMatchesConfig ==
    [][ (config' # config \/ storage' # storage) =>
          /\ storage'.kind = "json"
          /\ storage'.doc = config'
      ]_vars

\* C19: when the saved text is not valid JSON at startup, the config is the
\* defaults; it stays so until a panel action writes the store
C19_CorruptLoadsDefaults ==
    storage = Corrupt =>
        /\ config = HardDefaults
        /\ defaultConfig = HardDefaults

\* Started on a corrupt saved text, the wrapped fetch and the wrapped send
\* have each handled and logged a request under the defaults
C19_Witness ==
    /\ storage = Corrupt
    /\ config = HardDefaults
    /\ Len(requestLogs) = 2
    /\ \E s \in Slots : fetchCalls[s].state = "delegated"
    /\ \E o \in Objects : xhr[o].origSends = 1 /\ xhr[o].mockUrl # <<>>

\* C20 as stated: after an import of a file that is not valid JSON the config
\* is the default config
C20_FailedImportGivesDefaults ==
    [][ \A confirmed \in BOOLEAN :
          importConfig(Corrupt, confirmed) => config' = HardDefaults ]_vars

\* C20, amended: an import of a file that is not valid JSON changes nothing
\* but the alert: the config, the store, the defaults, the log and both
\* clients are what they were before it
C20_FailedImportKeepsConfig ==
    [][ \A confirmed \in BOOLEAN :
          importConfig(Corrupt, confirmed) =>
              /\ importAlert' = "failed"
              /\ UNCHANGED <<config, storage, defaultConfig, alias, nextRuleId,
                             logVars, clientVars>>
      ]_vars

\* An import failed and the config still holds rules the defaults do not
C20_Witness ==
    /\ importAlert = "failed"
    /\ config # HardDefaults
    /\ config # defaultConfig
    /\ config.rules # <<>>

====
